---------------------------- MODULE Spec2Model ----------------------------
(***************************************************************************)
(* The OpenManus chat UI: the log poller (hooks/useLogPolling), the status *)
(* poller and the message reconstructor (components/ChatArea.jsx), the     *)
(* send / respond handler, and the MainContent coordinator that owns the   *)
(* busy flag.  The HTTP backend is modelled from the endpoint table.       *)
(*                                                                         *)
(* A text is a sequence of tokens: startsWith is a prefix test and         *)
(* String.replace(pat, '') removes the first occurrence of pat.            *)
(*                                                                         *)
(* One action is one JavaScript task: an event handler, a timer callback   *)
(* or the continuation of an awaited fetch, together with the re-render    *)
(* and the effects (timer clean-up / set-up, log processing) it causes.    *)
(* Requests in flight are kept in bags.  A GET is answered from the        *)
(* backend's state when it is issued, a POST when the backend handles it;  *)
(* responses are delivered in any order, and any request may fail.         *)
(***************************************************************************)
EXTENDS Integers, Sequences, FiniteSets, Bags, TLC

\* ------------------------------------------------------------ bounds
\* Lines the agent writes to one task's log on its own; a task asks the
\* human at most once, which adds the question and the answer to its log.
MaxLog == 1
\* Requests (log fetches, status fetches, POSTs) in flight together.
MaxInFlight == 2

\* Messages and answers the user submits; each message creates at most one
\* task, and the backend hands out the ids 1, 2, ... in this order.
MaxSubmits == 2

Tasks == 1..MaxSubmits
\* currentTaskId = null (or undefined): no active task.
NoTask == 0

\* ------------------------------------------------------------ texts
SP == " "
StepPrefix == <<"Executing step">>
AskPrefix == <<"[ASK_HUMAN]">>
AskTag == <<"[ASK_HUMAN]", SP>>
RespPrefix == <<"[USER_RESPONSE]">>
RespTag == <<"[USER_RESPONSE]", SP>>
StartTaskPrefix == <<"START_TASK">>
TokenUsagePrefix == <<"Token usage:">>
DebugUrlPrefix == <<"Session debug_url:">>
Greeting == <<"GREETING">>
Thinking == <<"THINKING">>
SendFailedText == <<"SEND_FAILED">>
RespondFailedText == <<"RESPOND_FAILED">>
NoText == <<>>

\* String.prototype.startsWith
StartsWith(s, p) == Len(s) >= Len(p) /\ SubSeq(s, 1, Len(p)) = p

\* Positions at which p occurs in s.
Occurrences(s, p) ==
    {i \in 1..(Len(s) - Len(p) + 1) : SubSeq(s, i, i + Len(p) - 1) = p}

\* A variant that removes every occurrence of p (replaceAll).
RECURSIVE Replace_All(_, _)
Replace_All(s, p) ==
    IF Occurrences(s, p) = {} THEN s
    ELSE LET i == CHOOSE k \in Occurrences(s, p) :
                      \A j \in Occurrences(s, p) : k <= j
         IN Replace_All(SubSeq(s, 1, i - 1) \o SubSeq(s, i + Len(p), Len(s)), p)

\* String.prototype.replace(p, ''): the first occurrence of p is removed.
Replace(s, p) ==
    IF Occurrences(s, p) = {} THEN s
    ELSE LET i == CHOOSE k \in Occurrences(s, p) :
                      \A j \in Occurrences(s, p) : k <= j
         IN SubSeq(s, 1, i - 1) \o SubSeq(s, i + Len(p), Len(s))

\* String.prototype.trim
RECURSIVE Trim(_)
Trim(s) ==
    IF s = <<>> THEN s
    ELSE IF Head(s) = SP THEN Trim(Tail(s))
    ELSE IF s[Len(s)] = SP THEN Trim(SubSeq(s, 1, Len(s) - 1))
    ELSE s

\* ------------------------------------------------------------ messages
Msg(c, who, stepHdr, question, response, st) ==
    [content |-> c, sender |-> who, isStepMessage |-> stepHdr,
     isQuestion |-> question, isResponse |-> response, step |-> st]

PlainBot(c) == Msg(c, "bot", FALSE, FALSE, FALSE, NoText)
GreetingMsg == Msg(Greeting, "bot", TRUE, FALSE, FALSE, NoText)
ThinkingMsg == Msg(Thinking, "bot", TRUE, FALSE, FALSE, NoText)
UserMsg(c) == Msg(c, "user", FALSE, FALSE, FALSE, NoText)

\* A variant that lets the session debug line through.
shouldShowLog_ShowsDebugUrl(m) ==
    /\ ~StartsWith(m, StartTaskPrefix)
    /\ ~StartsWith(m, TokenUsagePrefix)

shouldShowLog(m) ==
    /\ ~StartsWith(m, StartTaskPrefix)
    /\ ~StartsWith(m, TokenUsagePrefix)
    /\ ~StartsWith(m, DebugUrlPrefix)

\* A variant in which the step marker itself sits in its step's bucket.
FlushStep_WithMarker(currentStep, currentStepMessages) ==
    IF currentStep # NoText /\ Len(currentStepMessages) > 0
    THEN <<PlainBot(currentStep)>>
         \o [k \in 1..Len(currentStepMessages) |-> PlainBot(currentStepMessages[k])]
    ELSE <<>>

\* Messages of a closed step's bucket, added again when the next step opens.
FlushStep(currentStep, currentStepMessages) ==
    IF currentStep # NoText /\ Len(currentStepMessages) > 0
    THEN [k \in 1..Len(currentStepMessages) |-> PlainBot(currentStepMessages[k])]
    ELSE <<>>

\* logs.forEach of the log-processing effect from entry i on: the messages
\* it appends, in order.
RECURSIVE ProcessFrom(_, _, _, _)
ProcessFrom(ls, i, currentStep, currentStepMessages) ==
    IF i > Len(ls) THEN <<>>
    ELSE LET m == ls[i] IN
      IF ~shouldShowLog(m)
      THEN ProcessFrom(ls, i + 1, currentStep, currentStepMessages)
      ELSE IF StartsWith(m, AskPrefix)
      THEN <<Msg(Replace(m, AskTag), "bot", FALSE, TRUE, FALSE, NoText)>>
           \o ProcessFrom(ls, i + 1, currentStep, currentStepMessages)
      ELSE IF StartsWith(m, RespPrefix)
      THEN <<Msg(Replace(m, RespTag), "user", FALSE, FALSE, TRUE, NoText)>>
           \o ProcessFrom(ls, i + 1, currentStep, currentStepMessages)
      ELSE IF StartsWith(m, StepPrefix)
      THEN FlushStep(currentStep, currentStepMessages)
           \o <<Msg(m, "bot", TRUE, FALSE, FALSE, currentStep)>>
           \o ProcessFrom(ls, i + 1, m, <<>>)
      ELSE IF currentStep # NoText
      THEN <<Msg(m, "bot", FALSE, FALSE, FALSE, currentStep)>>
           \o ProcessFrom(ls, i + 1, currentStep, Append(currentStepMessages, m))
      ELSE <<PlainBot(m)>>
           \o ProcessFrom(ls, i + 1, currentStep, currentStepMessages)

\* One pass of the log-processing effect over the whole log sequence.
ProcessLogs(ls) == ProcessFrom(ls, 1, NoText, <<>>)

\* A variant in which the first messages of the task replace the thinking
\* placeholder.
LogEffectMessages_ReplacesPlaceholder(prev, ls) ==
    IF Len(ls) = 0 THEN prev
    ELSE SelectSeq(prev, LAMBDA d : d.content # Thinking) \o ProcessLogs(ls)

\* The effect returns at once on an empty log sequence; otherwise every
\* message of the pass is appended to the messages already shown.
LogEffectMessages(prev, ls) ==
    IF Len(ls) = 0 THEN prev ELSE prev \o ProcessLogs(ls)

\* setCurrentHumanQuestion: the last question of the pass, if any.
RECURSIVE LogEffectQuestion(_, _)
LogEffectQuestion(prevQ, ls) ==
    IF ls = <<>> THEN prevQ
    ELSE LET m == ls[Len(ls)]
             rest == SubSeq(ls, 1, Len(ls) - 1) IN
         IF shouldShowLog(m) /\ StartsWith(m, AskPrefix)
         THEN Replace(m, AskTag)
         ELSE LogEffectQuestion(prevQ, rest)

\* ------------------------------------------------------------ inputs
\* What the user may type: nothing, a blank, a word.
InputTexts == {NoText, <<SP>>, <<"hi">>}
\* What the agent may log while it runs.
StepLine == StepPrefix \o <<"1">>
PlainLine == <<"x">>
LogPool == {StepLine, PlainLine}
AskLine == AskTag \o <<"q">>
\* The final answers of a completed task: absent, or a text.
Done == <<"done">>
Responses == {NoText, Done}

VARIABLES
    \* App / MainContent / useLogPolling / ChatArea state
    currentTaskId, isLoading, lastIndex, logs, messages, inputValue,
    isAwaitingHuman, currentHumanQuestion,
    \* the two setInterval timers, with the values their callbacks close over
    logTimer, statusTimer,
    \* requests in flight
    logFetches, statusFetches, sendPosts, respondPosts,
    \* the backend: per task its log and its status, and the tasks created
    bLogs, bStatus, nTasks,
    \* how many messages and answers the user has submitted
    nSubmits,
    \* history: the last handler or continuation that ran ("-" after a timer
    \* tick, a keystroke or a backend step); since the last resetLogs, the summed
    \* lengths of the logs arrays received, the next_index of the last
    \* response and of the last response that carried entries, and the task
    \* each accumulated entry was fetched for; per task, the final messages
    \* appended and the last_index of its first log fetch; the messages the
    \* log-processing effect has appended since the last resetLogs
    ev, recvLen, lastNext, lastFullNext, logSrc, finals, firstIdx, logMsgs,
    \* Browser: the URL of the preview frame
    url,
    \* usePolling: the url the hook is rendered with (NotMounted before it
    \* mounts and after it unmounts),
    \* its isPolling state, and every run of its effect so far
    pollUrl, isPolling, chains

uiVars == <<currentTaskId, isLoading, lastIndex, logs, messages, inputValue,
            isAwaitingHuman, currentHumanQuestion>>
timerVars == <<logTimer, statusTimer>>
netVars == <<logFetches, statusFetches, sendPosts, respondPosts>>
backendVars == <<bLogs, bStatus, nTasks>>
pollHist == <<recvLen, lastNext, lastFullNext, logSrc, logMsgs>>
histVars == <<ev, recvLen, lastNext, lastFullNext, logSrc, finals, firstIdx,
              logMsgs>>
pollVars == <<pollUrl, isPolling, chains>>
auxVars == <<url, pollVars>>
vars == <<uiVars, timerVars, netVars, backendVars, nSubmits, histVars,
          auxVars>>

\* ------------------------------------------------------------ effects
LogTimerOff == [on |-> FALSE, taskId |-> NoTask, lastIndex |-> 0]
StatusTimerOff == [on |-> FALSE, taskId |-> NoTask, isLoading |-> FALSE]

\* A variant of the effect that keeps polling while the busy flag is off.
LogPollingEffect_IgnoresLoading(taskId, li, loading) ==
    IF taskId = NoTask THEN [on |-> FALSE, taskId |-> NoTask, lastIndex |-> 0]
    ELSE [on |-> TRUE, taskId |-> taskId, lastIndex |-> li]

\* useLogPolling's effect for (taskId, lastIndex, isLoading): the interval
\* it leaves running after the clean-up of the previous one.
LogPollingEffect(taskId, li, loading) ==
    IF taskId = NoTask \/ ~loading THEN LogTimerOff
    ELSE [on |-> TRUE, taskId |-> taskId, lastIndex |-> li]

\* ChatArea's status polling effect for (currentTaskId, isLoading).
StatusPollingEffect(taskId, loading) ==
    IF taskId = NoTask THEN StatusTimerOff
    ELSE [on |-> TRUE, taskId |-> taskId, isLoading |-> loading]

\* ------------------------------------------------------------ Browser
\* String.prototype.includes
Includes(s, p) == Occurrences(s, p) # {}

\* Texts that end with a colon, and texts that are an http(s) URL.
ColonTexts == {"Session debug_url:", "Token usage:"}
UrlTexts == {"http://a", "https://b"}

\* message.match(/: (https?:\/\/[^\s]+)/): the URL behind the first ': '
\* that has one behind it; NoText when there is no match.
UrlMatch(m) ==
    LET S == {i \in 1..(Len(m) - 2) :
                 m[i] \in ColonTexts /\ m[i + 1] = SP /\ m[i + 2] \in UrlTexts}
    IN IF S = {} THEN NoText
       ELSE <<m[(CHOOSE i \in S : \A j \in S : i <= j) + 2]>>

\* A variant that takes the oldest entry with a URL.
RECURSIVE extractUrlFromLogs_Oldest(_)
extractUrlFromLogs_Oldest(ls) ==
    IF ls = <<>> THEN NoText
    ELSE LET m == Head(ls) IN
         IF Includes(m, DebugUrlPrefix) /\ UrlMatch(m) # NoText
         THEN UrlMatch(m)
         ELSE extractUrlFromLogs_Oldest(Tail(ls))

\* extractUrlFromLogs: from the last entry backwards, the URL of the first
\* entry that includes 'Session debug_url:' and matches; NoText for null.
RECURSIVE extractUrlFromLogs(_)
extractUrlFromLogs(ls) ==
    IF ls = <<>> THEN NoText
    ELSE LET m == ls[Len(ls)] IN
         IF Includes(m, DebugUrlPrefix) /\ UrlMatch(m) # NoText
         THEN UrlMatch(m)
         ELSE extractUrlFromLogs(SubSeq(ls, 1, Len(ls) - 1))

\* Browser's render with the logs ls: the url state it leaves.
BrowserRender(u, ls) ==
    LET newUrl == extractUrlFromLogs(ls)
    IN IF newUrl # NoText /\ newUrl # u THEN newUrl ELSE u

\* The re-render after a task: both polling effects are re-evaluated
\* against the new state, and Browser renders with the new logs.
Render ==
    /\ logTimer' = LogPollingEffect(currentTaskId', lastIndex', isLoading')
    /\ statusTimer' = StatusPollingEffect(currentTaskId', isLoading')
    /\ url' = BrowserRender(url, logs')

\* ------------------------------------------------------------ backend
\* Requests in flight.
InFlight ==
    BagCardinality(logFetches) + BagCardinality(statusFetches)
        + BagCardinality(sendPosts) + BagCardinality(respondPosts)

\* The lines of a log the agent wrote on its own.
OwnLines(l) == SelectSeq(l, LAMBDA e : e \in LogPool)
\* The task has asked the human already.
HasAsked(l) == \E i \in 1..Len(l) : l[i] = AskLine

StatusOf(st, r) == [status |-> st, response |-> r]

\* GET /logs/:taskId?last_index=N
LogsResponse(t, n) ==
    [logs |-> SubSeq(bLogs[t], n + 1, Len(bLogs[t])),
     next_index |-> Len(bLogs[t])]

\* The agent writes a log line.
BackendLog(t, e) ==
    /\ bStatus[t].status = "running"
    /\ Len(OwnLines(bLogs[t])) < MaxLog
    /\ bLogs' = [bLogs EXCEPT ![t] = Append(@, e)]
    /\ ev' = "-"
    /\ UNCHANGED <<auxVars, uiVars, timerVars, netVars, bStatus, nTasks, pollHist,
                   finals, firstIdx, nSubmits>>

\* The agent asks the human: it logs the question and suspends.
BackendAsk(t) ==
    /\ bStatus[t].status = "running"
    /\ ~HasAsked(bLogs[t])
    /\ bLogs' = [bLogs EXCEPT ![t] = Append(@, AskLine)]
    /\ bStatus' = [bStatus EXCEPT ![t] = StatusOf("awaiting_human", NoText)]
    /\ ev' = "-"
    /\ UNCHANGED <<auxVars, uiVars, timerVars, netVars, nTasks, pollHist, finals,
                   firstIdx, nSubmits>>

\* The task ends: completed (with or without a response text) or error.
BackendFinish(t, st, r) ==
    /\ bStatus[t].status = "running"
    /\ bStatus' = [bStatus EXCEPT ![t] = StatusOf(st, r)]
    /\ ev' = "-"
    /\ UNCHANGED <<auxVars, uiVars, timerVars, netVars, bLogs, nTasks, pollHist,
                   finals, firstIdx, nSubmits>>

\* POST /send reaches the backend: a task is created and its id returned,
\* or the reply carries no task_id.
BackendSend(p, ok) ==
    /\ BagIn(p, sendPosts)
    /\ p.reply = "pending"
    /\ IF ok
       THEN /\ nTasks < MaxSubmits
            /\ nTasks' = nTasks + 1
            /\ bStatus' = [bStatus EXCEPT ![nTasks + 1] = StatusOf("running", NoText)]
            /\ sendPosts' = (sendPosts (-) SetToBag({p}))
                   (+) SetToBag({[p EXCEPT !.reply = "ok", !.task_id = nTasks + 1]})
       ELSE /\ sendPosts' = (sendPosts (-) SetToBag({p}))
                   (+) SetToBag({[p EXCEPT !.reply = "no_task_id"]})
            /\ UNCHANGED <<nTasks, bStatus>>
    /\ ev' = "-"
    /\ UNCHANGED <<auxVars, uiVars, timerVars, logFetches, statusFetches, respondPosts,
                   bLogs, pollHist, finals, firstIdx, nSubmits>>

\* POST /human_response reaches the backend: a suspended task logs the
\* answer and runs again.
BackendHumanResponse(p) ==
    /\ BagIn(p, respondPosts)
    /\ ~p.handled
    /\ respondPosts' = (respondPosts (-) SetToBag({p}))
           (+) SetToBag({[p EXCEPT !.handled = TRUE]})
    /\ IF bStatus[p.task_id].status = "awaiting_human"
       THEN /\ bStatus' = [bStatus EXCEPT ![p.task_id] = StatusOf("running", NoText)]
            /\ bLogs' = [bLogs EXCEPT ![p.task_id] = Append(@, RespTag \o p.response)]
       ELSE UNCHANGED <<bStatus, bLogs>>
    /\ ev' = "-"
    /\ UNCHANGED <<auxVars, uiVars, timerVars, logFetches, statusFetches, sendPosts,
                   nTasks, pollHist, finals, firstIdx, nSubmits>>

\* ------------------------------------------------------------ log poller
\* A variant that replaces the accumulated entries by the batch.
pollLogsLogs_Replace(prevLogs, data) ==
    IF Len(data.logs) > 0 THEN data.logs ELSE prevLogs

\* A variant that sets the cursor whether or not the batch has entries.
pollLogsIndex_Unguarded(li, data) == data.next_index

\* setLogs(prevLogs => [...prevLogs, ...data.logs]) under the guard
\* data.logs && data.logs.length > 0.
pollLogsLogs(prevLogs, data) ==
    IF Len(data.logs) > 0 THEN prevLogs \o data.logs ELSE prevLogs

\* setLastIndex(data.next_index) under the same guard.
pollLogsIndex(li, data) ==
    IF Len(data.logs) > 0 THEN data.next_index ELSE li

\* The interval fires: pollLogs issues GET /logs/:taskId?last_index=N with
\* the task id and cursor its closure holds.
LogTick ==
    /\ logTimer.on
    /\ InFlight < MaxInFlight
    /\ LET t == logTimer.taskId
           d == LogsResponse(t, logTimer.lastIndex)
       IN /\ logFetches' = logFetches (+) SetToBag({
                 [taskId |-> t, last_index |-> logTimer.lastIndex,
                  logs |-> d.logs, next_index |-> d.next_index]})
          /\ firstIdx' = IF firstIdx[t] = -1
                         THEN [firstIdx EXCEPT ![t] = logTimer.lastIndex]
                         ELSE firstIdx
    /\ ev' = "-"
    /\ UNCHANGED <<auxVars, uiVars, timerVars, statusFetches, sendPosts, respondPosts,
                   backendVars, nSubmits, pollHist, finals>>

\* The fetch resolves and its body parses: the entries are appended and the
\* cursor set; the changed log sequence makes the log-processing effect run.
LogOk(f) ==
    /\ BagIn(f, logFetches)
    /\ logFetches' = logFetches (-) SetToBag({f})
    /\ logs' = pollLogsLogs(logs, f)
    /\ lastIndex' = pollLogsIndex(lastIndex, f)
    /\ IF Len(f.logs) > 0
       THEN /\ messages' = LogEffectMessages(messages, logs')
            /\ currentHumanQuestion' = LogEffectQuestion(currentHumanQuestion, logs')
       ELSE UNCHANGED <<messages, currentHumanQuestion>>
    /\ ev' = "LogOk"
    /\ recvLen' = recvLen + Len(f.logs)
    /\ lastNext' = f.next_index
    /\ lastFullNext' = IF Len(f.logs) > 0 THEN f.next_index ELSE lastFullNext
    /\ logSrc' = logSrc \o [k \in 1..Len(f.logs) |-> f.taskId]
    /\ logMsgs' = logMsgs \o SubSeq(messages', Len(messages) + 1, Len(messages'))
    /\ UNCHANGED <<pollVars, currentTaskId, isLoading, inputValue, isAwaitingHuman,
                   statusFetches, sendPosts, respondPosts, backendVars,
                   nSubmits, finals, firstIdx>>
    /\ Render

\* A variant whose catch block gives up polling and rewinds the cursor.
LogFail_GivesUp(f) ==
    /\ BagIn(f, logFetches)
    /\ logFetches' = logFetches (-) SetToBag({f})
    /\ ev' = "LogFail"
    /\ lastIndex' = 0
    /\ logTimer' = LogTimerOff
    /\ UNCHANGED <<auxVars, currentTaskId, isLoading, logs, messages, inputValue,
                   isAwaitingHuman, currentHumanQuestion, statusTimer,
                   statusFetches, sendPosts, respondPosts,
                   backendVars, nSubmits, pollHist, finals, firstIdx>>

\* The fetch rejects or its body does not parse: the catch block logs a
\* warning and nothing else happens.
LogFail(f) ==
    /\ BagIn(f, logFetches)
    /\ logFetches' = logFetches (-) SetToBag({f})
    /\ ev' = "LogFail"
    /\ UNCHANGED <<auxVars, uiVars, timerVars, statusFetches, sendPosts, respondPosts,
                   backendVars, nSubmits, pollHist, finals, firstIdx>>

\* resetLogs, as far as the history of the poller goes.
ResetHist ==
    /\ recvLen' = 0
    /\ lastNext' = 0
    /\ lastFullNext' = 0
    /\ logSrc' = <<>>
    /\ logMsgs' = <<>>

\* ------------------------------------------------------------ status poller
\* The interval fires: GET /status/:currentTaskId.
StatusTick ==
    /\ statusTimer.on
    /\ InFlight < MaxInFlight
    /\ LET t == statusTimer.taskId
       IN statusFetches' = statusFetches (+) SetToBag({
              [taskId |-> t, isLoading |-> statusTimer.isLoading,
               status |-> bStatus[t].status, response |-> bStatus[t].response]})
    /\ ev' = "-"
    /\ UNCHANGED <<auxVars, uiVars, timerVars, logFetches, sendPosts, respondPosts,
                   backendVars, nSubmits, pollHist, finals, firstIdx>>

\* data.status === 'awaiting_human'
StatusAwaiting(f) ==
    /\ BagIn(f, statusFetches)
    /\ f.status = "awaiting_human"
    /\ statusFetches' = statusFetches (-) SetToBag({f})
    /\ isAwaitingHuman' = TRUE
    /\ isLoading' = IF f.isLoading THEN FALSE ELSE isLoading
    /\ ev' = "StatusAwaiting"
    /\ UNCHANGED <<pollVars, currentTaskId, lastIndex, logs, messages, inputValue,
                   currentHumanQuestion, logFetches, sendPosts, respondPosts,
                   backendVars, nSubmits, pollHist, finals, firstIdx>>
    /\ Render

\* The final message a completed status adds, if it carries a response.
CompletedMessages(prev, response) ==
    IF response # NoText THEN Append(prev, PlainBot(response)) ELSE prev

\* data.status === 'completed'
StatusCompleted(f) ==
    /\ BagIn(f, statusFetches)
    /\ f.status = "completed"
    /\ statusFetches' = statusFetches (-) SetToBag({f})
    /\ isAwaitingHuman' = FALSE
    /\ isLoading' = FALSE
    /\ messages' = CompletedMessages(messages, f.response)
    /\ currentTaskId' = NoTask
    /\ ev' = "StatusCompleted"
    /\ finals' = IF f.response # NoText
                 THEN [finals EXCEPT ![f.taskId] = @ + 1] ELSE finals
    /\ UNCHANGED <<pollVars, lastIndex, logs, inputValue, currentHumanQuestion,
                   logFetches, sendPosts, respondPosts, backendVars,
                   nSubmits, pollHist, firstIdx>>
    /\ Render

\* A variant that reports the error in the chat.
StatusError_ShowsMessage(f) ==
    /\ BagIn(f, statusFetches)
    /\ f.status = "error"
    /\ statusFetches' = statusFetches (-) SetToBag({f})
    /\ isAwaitingHuman' = FALSE
    /\ isLoading' = FALSE
    /\ messages' = Append(messages, PlainBot(SendFailedText))
    /\ currentTaskId' = NoTask
    /\ ev' = "StatusError"
    /\ UNCHANGED <<pollVars, lastIndex, logs, inputValue, currentHumanQuestion,
                   logFetches, sendPosts, respondPosts, backendVars,
                   nSubmits, pollHist, finals, firstIdx>>
    /\ Render

\* data.status === 'error'
StatusError(f) ==
    /\ BagIn(f, statusFetches)
    /\ f.status = "error"
    /\ statusFetches' = statusFetches (-) SetToBag({f})
    /\ isAwaitingHuman' = FALSE
    /\ isLoading' = FALSE
    /\ currentTaskId' = NoTask
    /\ ev' = "StatusError"
    /\ UNCHANGED <<pollVars, lastIndex, logs, messages, inputValue, currentHumanQuestion,
                   logFetches, sendPosts, respondPosts, backendVars,
                   nSubmits, pollHist, finals, firstIdx>>
    /\ Render

\* Any other status: no branch is taken.
StatusOther(f) ==
    /\ BagIn(f, statusFetches)
    /\ f.status \notin {"awaiting_human", "completed", "error"}
    /\ statusFetches' = statusFetches (-) SetToBag({f})
    /\ ev' = "StatusOther"
    /\ UNCHANGED <<auxVars, uiVars, timerVars, logFetches, sendPosts, respondPosts,
                   backendVars, nSubmits, pollHist, finals, firstIdx>>

\* A variant whose catch block turns the busy flag off.
StatusFail_StopsLoading(f) ==
    /\ BagIn(f, statusFetches)
    /\ statusFetches' = statusFetches (-) SetToBag({f})
    /\ isLoading' = FALSE
    /\ ev' = "StatusFail"
    /\ UNCHANGED <<pollVars, currentTaskId, lastIndex, logs, messages, inputValue,
                   isAwaitingHuman, currentHumanQuestion, logFetches,
                   sendPosts, respondPosts, backendVars, nSubmits, pollHist,
                   finals, firstIdx>>
    /\ Render

\* The fetch rejects or its body does not parse: the catch block.
StatusFail(f) ==
    /\ BagIn(f, statusFetches)
    /\ statusFetches' = statusFetches (-) SetToBag({f})
    /\ ev' = "StatusFail"
    /\ UNCHANGED <<auxVars, uiVars, timerVars, logFetches, sendPosts, respondPosts,
                   backendVars, nSubmits, pollHist, finals, firstIdx>>

\* ------------------------------------------------------------ send / respond
\* The input and the button are disabled while busy and not awaiting input.
InputDisabled == isLoading /\ ~isAwaitingHuman

\* onChange of the input field.
TypeInput(v) ==
    /\ ~InputDisabled
    /\ v # inputValue
    /\ inputValue' = v
    /\ ev' = "-"
    /\ UNCHANGED <<auxVars, currentTaskId, isLoading, lastIndex, logs, messages,
                   isAwaitingHuman, currentHumanQuestion, timerVars, netVars,
                   backendVars, nSubmits, pollHist, finals, firstIdx>>

\* handleSendMessage's first line: it returns at once unless this holds.
CanSubmit == Trim(inputValue) # NoText /\ ~(isLoading /\ ~isAwaitingHuman)

\* The branch handleSendMessage takes: answering a question or a new message.
IsRespondBranch == isAwaitingHuman /\ currentTaskId # NoTask

\* handleSendMessage, answering a question: POST /human_response is issued.
RespondWithin(limit) ==
    /\ CanSubmit
    /\ IsRespondBranch
    /\ nSubmits < limit
    /\ InFlight < MaxInFlight
    /\ respondPosts' = respondPosts (+) SetToBag({
           [task_id |-> currentTaskId, response |-> inputValue, handled |-> FALSE]})
    /\ nSubmits' = nSubmits + 1
    /\ ev' = "-"
    /\ UNCHANGED <<auxVars, uiVars, timerVars, logFetches, statusFetches, sendPosts,
                   backendVars, pollHist, finals, firstIdx>>

Respond == RespondWithin(MaxSubmits)

\* A variant that echoes the answer into the display list at once.
RespondOk_EchoesLocally(p) ==
    /\ BagIn(p, respondPosts)
    /\ p.handled
    /\ respondPosts' = respondPosts (-) SetToBag({p})
    /\ messages' = Append(messages, UserMsg(p.response))
    /\ inputValue' = NoText
    /\ isAwaitingHuman' = FALSE
    /\ isLoading' = TRUE
    /\ logs' = <<>>
    /\ lastIndex' = 0
    /\ ResetHist
    /\ ev' = "RespondOk"
    /\ UNCHANGED <<pollVars, currentTaskId, currentHumanQuestion, logFetches,
                   statusFetches, sendPosts, backendVars, nSubmits, finals,
                   firstIdx>>
    /\ Render

\* The POST resolved: the input is cleared, the awaiting flag dropped and
\* onStartLoading called (busy flag on, resetLogs).
RespondOk(p) ==
    /\ BagIn(p, respondPosts)
    /\ p.handled
    /\ respondPosts' = respondPosts (-) SetToBag({p})
    /\ inputValue' = NoText
    /\ isAwaitingHuman' = FALSE
    /\ isLoading' = TRUE
    /\ logs' = <<>>
    /\ lastIndex' = 0
    /\ ResetHist
    /\ ev' = "RespondOk"
    /\ UNCHANGED <<pollVars, currentTaskId, messages, currentHumanQuestion, logFetches,
                   statusFetches, sendPosts, backendVars, nSubmits, finals,
                   firstIdx>>
    /\ Render

\* The POST rejected: an error message is shown.
RespondFail(p) ==
    /\ BagIn(p, respondPosts)
    /\ respondPosts' = respondPosts (-) SetToBag({p})
    /\ messages' = Append(messages, PlainBot(RespondFailedText))
    /\ ev' = "RespondFail"
    /\ UNCHANGED <<auxVars, currentTaskId, isLoading, lastIndex, logs, inputValue,
                   isAwaitingHuman, currentHumanQuestion, timerVars, logFetches,
                   statusFetches, sendPosts, backendVars, nSubmits, pollHist,
                   finals, firstIdx>>

\* handleSendMessage, new conversation: the user's message and the thinking
\* placeholder are appended, the input cleared, onStartLoading called and
\* POST /send issued.
SendWithin(limit) ==
    /\ CanSubmit
    /\ ~IsRespondBranch
    /\ nSubmits < limit
    /\ InFlight < MaxInFlight
    /\ messages' = messages \o <<UserMsg(inputValue), ThinkingMsg>>
    /\ inputValue' = NoText
    /\ isLoading' = TRUE
    /\ logs' = <<>>
    /\ lastIndex' = 0
    /\ sendPosts' = sendPosts (+) SetToBag({
           [message |-> inputValue, reply |-> "pending", task_id |-> NoTask]})
    /\ nSubmits' = nSubmits + 1
    /\ ResetHist
    /\ ev' = "Send"
    /\ UNCHANGED <<pollVars, currentTaskId, isAwaitingHuman, currentHumanQuestion,
                   logFetches, statusFetches, respondPosts, backendVars,
                   finals, firstIdx>>
    /\ Render

Send == SendWithin(MaxSubmits)

\* The POST resolved and its body parsed: setCurrentTaskId(data.task_id).
SendOk(p) ==
    /\ BagIn(p, sendPosts)
    /\ p.reply # "pending"
    /\ sendPosts' = sendPosts (-) SetToBag({p})
    /\ currentTaskId' = p.task_id
    /\ ev' = "SendOk"
    /\ UNCHANGED <<pollVars, isLoading, lastIndex, logs, messages, inputValue,
                   isAwaitingHuman, currentHumanQuestion, logFetches,
                   statusFetches, respondPosts, backendVars, nSubmits,
                   pollHist, finals, firstIdx>>
    /\ Render

\* A variant that keeps every message and appends the error message.
SendFailMessages_KeepsAll(prev) == Append(prev, PlainBot(SendFailedText))

\* The messages left by the catch block of the send branch.
SendFailMessages(prev) ==
    SelectSeq(prev, LAMBDA m : m.sender # "bot") \o <<PlainBot(SendFailedText)>>

\* The POST rejected or its body did not parse.
SendFail(p) ==
    /\ BagIn(p, sendPosts)
    /\ sendPosts' = sendPosts (-) SetToBag({p})
    /\ messages' = SendFailMessages(messages)
    /\ isLoading' = FALSE
    /\ ev' = "SendFail"
    /\ UNCHANGED <<pollVars, currentTaskId, lastIndex, logs, inputValue, isAwaitingHuman,
                   currentHumanQuestion, logFetches, statusFetches,
                   respondPosts, backendVars, nSubmits, pollHist, finals,
                   firstIdx>>
    /\ Render

\* ------------------------------------------------------------ usePolling
\* Runs of the hook's effect in one behaviour.
MaxChains == 4

NotMounted == "unmounted"
PollUrls == {"u1", "u2"}
restVars == <<uiVars, timerVars, netVars, backendVars, nSubmits, histVars, url>>

\* One run of the effect: fetchData is called at once, with the url and the
\* isPolling value of the render the effect belongs to.  phase tells what
\* the chain of fetchData calls is doing: a fetch is in flight, a timeout
\* is pending, or neither; late tells that the chain has scheduled a
\* timeout or issued a fetch after its clean-up.
NewChain(u, ip) ==
    [url |-> u, isPolling |-> ip, phase |-> "fetching",
     cleaned |-> FALSE, late |-> FALSE]

\* The clean-up of a run: clearTimeout(timeoutId) cancels the timeout if one
\* is pending and does nothing while a fetch is in flight.
CleanupChain(c) ==
    [c EXCEPT !.cleaned = TRUE,
              !.phase = IF @ = "timer" THEN "stopped" ELSE @]

\* A render with changed dependencies: the last run is cleaned up and the
\* effect runs again.
RerunEffect(chs, u, ip) ==
    [chs EXCEPT ![Len(chs)] = CleanupChain(@)] \o <<NewChain(u, ip)>>

\* What a render with the dependencies (u, ip) leads to: the clean-up calls
\* setIsPolling(false), so if ip was true a second render follows, with
\* isPolling false.
RerunUntilStable(chs, u, ip) ==
    IF ip THEN RerunEffect(RerunEffect(chs, u, TRUE), u, FALSE)
    ELSE RerunEffect(chs, u, FALSE)

\* The component is rendered with another url.
ChangeUrl(u) ==
    /\ pollUrl # NotMounted
    /\ u # pollUrl
    /\ Len(chains) + (IF isPolling THEN 2 ELSE 1) <= MaxChains
    /\ pollUrl' = u
    /\ chains' = RerunUntilStable(chains, u, isPolling)
    /\ isPolling' = FALSE
    /\ UNCHANGED restVars

\* The caller uses the setter the hook returns.
SetIsPolling(b) ==
    /\ pollUrl # NotMounted
    /\ b # isPolling
    /\ Len(chains) + (IF b THEN 2 ELSE 1) <= MaxChains
    /\ chains' = RerunUntilStable(chains, pollUrl, b)
    /\ isPolling' = FALSE
    /\ UNCHANGED <<pollUrl, restVars>>

\* The component unmounts: the clean-up of the last run.
Unmount ==
    /\ pollUrl # NotMounted
    /\ pollUrl' = NotMounted
    /\ isPolling' = FALSE
    /\ chains' = [chains EXCEPT ![Len(chains)] = CleanupChain(@)]
    /\ UNCHANGED restVars

\* The fetch of a run settles (setData or setError), and fetchData goes on:
\* if (isPolling) timeoutId = setTimeout(fetchData, interval).
FetchDone(i, ok) ==
    /\ i \in 1..Len(chains)
    /\ chains[i].phase = "fetching"
    /\ chains' = [chains EXCEPT ![i] =
           IF @.isPolling
           THEN [@ EXCEPT !.phase = "timer", !.late = @ \/ chains[i].cleaned]
           ELSE [@ EXCEPT !.phase = "stopped"]]
    /\ UNCHANGED <<pollUrl, isPolling, restVars>>

\* A pending timeout fires: fetchData is called.
TimeoutFires(i) ==
    /\ i \in 1..Len(chains)
    /\ chains[i].phase = "timer"
    /\ chains' = [chains EXCEPT ![i] =
           [@ EXCEPT !.phase = "fetching", !.late = @ \/ chains[i].cleaned]]
    /\ UNCHANGED <<pollUrl, isPolling, restVars>>

\* The hook has just mounted with its first url: isPolling starts true and
\* the effect has run once.
PollInit ==
    /\ \E u \in PollUrls :
         /\ pollUrl = u
         /\ chains = <<NewChain(u, TRUE)>>
    /\ isPolling = TRUE
    /\ currentTaskId = NoTask
    /\ isLoading = FALSE
    /\ lastIndex = 0
    /\ logs = <<>>
    /\ messages = <<GreetingMsg>>
    /\ inputValue = NoText
    /\ isAwaitingHuman = FALSE
    /\ currentHumanQuestion = NoText
    /\ logTimer = LogTimerOff
    /\ statusTimer = StatusTimerOff
    /\ logFetches = EmptyBag
    /\ statusFetches = EmptyBag
    /\ sendPosts = EmptyBag
    /\ respondPosts = EmptyBag
    /\ bLogs = [t \in Tasks |-> <<>>]
    /\ bStatus = [t \in Tasks |-> StatusOf("none", NoText)]
    /\ nTasks = 0
    /\ nSubmits = 0
    /\ ev = "Init"
    /\ recvLen = 0
    /\ lastNext = 0
    /\ lastFullNext = 0
    /\ logSrc = <<>>
    /\ logMsgs = <<>>
    /\ finals = [t \in Tasks |-> 0]
    /\ firstIdx = [t \in Tasks |-> -1]
    /\ url = NoText

PollNext ==
    \/ \E u \in PollUrls : ChangeUrl(u)
    \/ \E b \in BOOLEAN : SetIsPolling(b)
    \/ Unmount
    \/ \E i \in 1..MaxChains, ok \in BOOLEAN : FetchDone(i, ok)
    \/ \E i \in 1..MaxChains : TimeoutFires(i)

PollSpec == PollInit /\ [][PollNext]_vars

\* ------------------------------------------------------------ specification
Init ==
    /\ currentTaskId = NoTask
    /\ isLoading = FALSE
    /\ lastIndex = 0
    /\ logs = <<>>
    /\ messages = <<GreetingMsg>>
    /\ inputValue = NoText
    /\ isAwaitingHuman = FALSE
    /\ currentHumanQuestion = NoText
    /\ logTimer = LogTimerOff
    /\ statusTimer = StatusTimerOff
    /\ logFetches = EmptyBag
    /\ statusFetches = EmptyBag
    /\ sendPosts = EmptyBag
    /\ respondPosts = EmptyBag
    /\ bLogs = [t \in Tasks |-> <<>>]
    /\ bStatus = [t \in Tasks |-> StatusOf("none", NoText)]
    /\ nTasks = 0
    /\ nSubmits = 0
    /\ ev = "Init"
    /\ recvLen = 0
    /\ lastNext = 0
    /\ lastFullNext = 0
    /\ logSrc = <<>>
    /\ logMsgs = <<>>
    /\ finals = [t \in Tasks |-> 0]
    /\ firstIdx = [t \in Tasks |-> -1]
    /\ url = NoText
    /\ pollUrl = NotMounted
    /\ isPolling = FALSE
    /\ chains = <<>>

Next ==
    \/ \E v \in InputTexts : TypeInput(v)
    \/ Send
    \/ Respond
    \/ \E p \in BagToSet(sendPosts) : SendOk(p)
    \/ \E p \in BagToSet(sendPosts) : SendFail(p)
    \/ \E p \in BagToSet(sendPosts), ok \in BOOLEAN : BackendSend(p, ok)
    \/ \E p \in BagToSet(respondPosts) : RespondOk(p)
    \/ \E p \in BagToSet(respondPosts) : RespondFail(p)
    \/ \E p \in BagToSet(respondPosts) : BackendHumanResponse(p)
    \/ LogTick
    \/ \E f \in BagToSet(logFetches) : LogOk(f)
    \/ \E f \in BagToSet(logFetches) : LogFail(f)
    \/ StatusTick
    \/ \E f \in BagToSet(statusFetches) : StatusAwaiting(f)
    \/ \E f \in BagToSet(statusFetches) : StatusCompleted(f)
    \/ \E f \in BagToSet(statusFetches) : StatusError(f)
    \/ \E f \in BagToSet(statusFetches) : StatusOther(f)
    \/ \E f \in BagToSet(statusFetches) : StatusFail(f)
    \/ \E t \in Tasks, e \in LogPool : BackendLog(t, e)
    \/ \E t \in Tasks : BackendAsk(t)
    \/ \E t \in Tasks, r \in Responses : BackendFinish(t, "completed", r)
    \/ \E t \in Tasks : BackendFinish(t, "error", NoText)

Spec == Init /\ [][Next]_vars

\* ------------------------------------------------------------ one pass of the fold
\* Entries in the first log response of a task.
MaxFoldLen == 4

\* Lines a task's log may hold: two step markers, a plain line, a question
\* (one of them quoting the tag again), an answer, and the three control
\* lines.
StepLine2 == StepPrefix \o <<"2">>
AskAskLine == AskTag \o AskTag \o <<"q">>
RespLine == RespTag \o <<"hi">>
StartLine == StartTaskPrefix \o <<"1">>
TokenLine == TokenUsagePrefix \o <<SP, "7">>
DebugLine == DebugUrlPrefix \o <<SP, "u">>
FoldPool == {StepLine, StepLine2, PlainLine, AskLine, AskAskLine, RespLine,
             StartLine, TokenLine, DebugLine}
FoldInputs == UNION {[1..n -> FoldPool] : n \in 0..MaxFoldLen}

\* The first task has been created and stored (handleSendMessage's send
\* branch has run to its end), the agent has written its log, and the first
\* log fetch, issued with last_index = 0, is in flight with that log.
FoldInit ==
    \E ls \in FoldInputs :
        /\ currentTaskId = 1
        /\ isLoading = TRUE
        /\ lastIndex = 0
        /\ logs = <<>>
        /\ messages = <<GreetingMsg, UserMsg(<<"hi">>), ThinkingMsg>>
        /\ inputValue = NoText
        /\ isAwaitingHuman = FALSE
        /\ currentHumanQuestion = NoText
        /\ logTimer = LogPollingEffect(1, 0, TRUE)
        /\ statusTimer = StatusPollingEffect(1, TRUE)
        /\ logFetches = SetToBag({[taskId |-> 1, last_index |-> 0,
                                   logs |-> ls, next_index |-> Len(ls)]})
        /\ statusFetches = EmptyBag
        /\ sendPosts = EmptyBag
        /\ respondPosts = EmptyBag
        /\ bLogs = [t \in Tasks |-> IF t = 1 THEN ls ELSE <<>>]
        /\ bStatus = [t \in Tasks |-> IF t = 1 THEN StatusOf("running", NoText)
                                      ELSE StatusOf("none", NoText)]
        /\ nTasks = 1
        /\ nSubmits = 1
        /\ ev = "SendOk"
        /\ recvLen = 0
        /\ lastNext = 0
        /\ lastFullNext = 0
        /\ logSrc = <<>>
        /\ logMsgs = <<>>
        /\ finals = [t \in Tasks |-> 0]
        /\ firstIdx = [t \in Tasks |-> IF t = 1 THEN 0 ELSE -1]
        /\ url = NoText
        /\ pollUrl = NotMounted
        /\ isPolling = FALSE
        /\ chains = <<>>

\* The response arrives: the entries are stored and the effect runs once.
FoldNext == \E f \in BagToSet(logFetches) : LogOk(f)

FoldSpec == FoldInit /\ [][FoldNext]_vars

\* ------------------------------------------------------------ log poller claims
\* C1: a log fetch that succeeds with one or more entries appends them, in
\* the order received, to the end of the accumulated log sequence and sets
\* the cursor to the response's next_index; one with no entries leaves the
\* log sequence and the cursor as they were.
C1_LogStep ==
    [][\A f \in BagToSet(logFetches) :
          LogOk(f) =>
            IF Len(f.logs) > 0
            THEN logs' = logs \o f.logs /\ lastIndex' = f.next_index
            ELSE logs' = logs /\ lastIndex' = lastIndex]_vars

\* A batch has been appended behind entries received earlier.
C1_Witness ==
    /\ ev = "LogOk"
    /\ Len(logs) >= 2
    /\ lastIndex = lastNext
    /\ lastIndex > 0

\* C2 as stated: after any number of successful polls since the last reset
\* the cursor is the last response's next_index and the log sequence is as
\* long as all logs arrays received together.
C2_CursorIsLastNextIndex ==
    /\ lastIndex = lastNext
    /\ Len(logs) = recvLen

\* C2 amended: the cursor is the next_index of the last response that
\* carried at least one entry (0 when there was none since the last reset),
\* and the log sequence is as long as all logs arrays received together.
C2_Accumulation ==
    /\ lastIndex = lastFullNext
    /\ Len(logs) = recvLen

\* An empty response with another next_index came after one with entries.
C2_Witness ==
    /\ ev = "LogOk"
    /\ recvLen > 0
    /\ lastNext # lastFullNext

\* C3: a log fetch that fails changes neither the cursor nor the log
\* sequence nor anything else the UI holds, and leaves the timer as it was:
\* still running, if it was, with the same last_index for the next tick.
C3_LogFailureIsSkipped ==
    [][\A f \in BagToSet(logFetches) :
          LogFail(f) =>
            /\ UNCHANGED uiVars
            /\ logTimer' = logTimer
            /\ (logTimer'.on => logTimer'.lastIndex = lastIndex)]_vars

\* A fetch failed with the poller running and the cursor advanced.
C3_Witness ==
    /\ ev = "LogFail"
    /\ logTimer.on
    /\ lastIndex > 0
    /\ logTimer.lastIndex = lastIndex

\* The log fetch a step issues, if it issues one.
IssuedLogFetches == {f \in BagToSet(logFetches') :
    CopiesIn(f, logFetches') > CopiesIn(f, logFetches)}

\* C4: the log poller's timer runs exactly while a task id is set and the
\* busy flag is on, for that task; and a log fetch is issued only then, for
\* the current task.
C4_LogPollerGated ==
    /\ [](/\ logTimer.on <=> (currentTaskId # NoTask /\ isLoading)
          /\ logTimer.on => logTimer.taskId = currentTaskId)
    /\ [][\A f \in IssuedLogFetches :
             /\ currentTaskId # NoTask
             /\ isLoading
             /\ f.taskId = currentTaskId]_vars

\* The busy flag went off with a task still set and a log fetch of that
\* task in flight: the timer is cleared.
C4_Witness ==
    /\ currentTaskId # NoTask
    /\ ~isLoading
    /\ ~logTimer.on
    /\ \E f \in BagToSet(logFetches) : f.taskId = currentTaskId

\* C5: a new task starts with the cursor at 0 and an empty log sequence, so
\* the first log fetch issued for a task carries last_index = 0, and while
\* a task is active the log sequence holds only entries fetched for it.
C5_NewTaskStartsFresh ==
    /\ ev = "Send" => (lastIndex = 0 /\ logs = <<>>)
    /\ \A t \in Tasks : firstIdx[t] \in {-1, 0}
    /\ currentTaskId # NoTask =>
           \A i \in 1..Len(logSrc) : logSrc[i] = currentTaskId

\* ------------------------------------------------------------ status poller claims
\* C6: a completed status with response text r appends one final bot
\* message with content r (none without a response), clears the task id,
\* the busy flag and both timers; and a task gets one final message, not
\* more.
C6_CompletedOnce ==
    /\ [][\A f \in BagToSet(statusFetches) :
             StatusCompleted(f) =>
               /\ messages' = IF f.response # NoText
                              THEN Append(messages, PlainBot(f.response))
                              ELSE messages
               /\ currentTaskId' = NoTask
               /\ ~isLoading'
               /\ ~statusTimer'.on
               /\ ~logTimer'.on]_vars
    /\ [](\A t \in Tasks : finals[t] <= 1)

\* C7: an error status stops status polling, clears the task id, turns the
\* busy and the awaiting flag off and appends no message.
C7_ErrorClearsTask ==
    [][\A f \in BagToSet(statusFetches) :
          StatusError(f) =>
            /\ currentTaskId' = NoTask
            /\ ~isLoading'
            /\ ~isAwaitingHuman'
            /\ messages' = messages
            /\ ~statusTimer'.on
            /\ ~logTimer'.on]_vars

\* The error of the active, busy task has been observed.
C7_Witness ==
    /\ ev = "StatusError"
    /\ currentTaskId = NoTask
    /\ \E t \in Tasks : bStatus[t].status = "error"
    /\ Len(messages) >= 3

\* C8: an awaiting_human status marks the UI as awaiting input, turns the
\* busy flag off, enables the input, leaves the task id set, and the status
\* timer keeps running for that task.
C8_AwaitingHuman ==
    [][\A f \in BagToSet(statusFetches) :
          StatusAwaiting(f) =>
            /\ isAwaitingHuman'
            /\ ~isLoading'
            /\ ~InputDisabled'
            /\ currentTaskId' = currentTaskId
            /\ currentTaskId' = f.taskId
            /\ statusTimer'.on
            /\ statusTimer'.taskId = f.taskId]_vars

\* C9: a status other than awaiting_human, completed and error, and a
\* status fetch that fails, change nothing the UI holds and leave both
\* timers as they were: while the polled task is still the active one the
\* status timer runs on for it.
C9_OtherStatusNoEffect ==
    [][\A f \in BagToSet(statusFetches) :
          (StatusOther(f) \/ StatusFail(f)) =>
            /\ UNCHANGED uiVars
            /\ UNCHANGED timerVars
            /\ currentTaskId = f.taskId =>
                   (statusTimer'.on /\ statusTimer'.taskId = f.taskId)]_vars

\* A running status was observed with the poller on; it is still on.
C9_Witness ==
    /\ ev \in {"StatusOther", "StatusFail"}
    /\ statusTimer.on
    /\ isLoading
    /\ ENABLED StatusTick

\* ------------------------------------------------------------ reconstructor claims
\* C10: after every pass of the log-processing effect, the messages it has
\* produced since the last reset are those of one left-to-right pass over
\* the current log sequence.
C10_FoldIdempotent == logMsgs = ProcessLogs(logs)

\* ------------------------------------------------------------ fold claims
\* The kinds of log entry, by the prefixes the fold tests, in its order.
IsControlLine(m) ==
    \/ StartsWith(m, StartTaskPrefix)
    \/ StartsWith(m, TokenUsagePrefix)
    \/ StartsWith(m, DebugUrlPrefix)
IsQuestionLine(m) == ~IsControlLine(m) /\ StartsWith(m, AskPrefix)
IsResponseLine(m) ==
    ~IsControlLine(m) /\ ~IsQuestionLine(m) /\ StartsWith(m, RespPrefix)
IsStepLine(m) ==
    /\ ~IsControlLine(m) /\ ~IsQuestionLine(m) /\ ~IsResponseLine(m)
    /\ StartsWith(m, StepPrefix)
IsOtherLine(m) ==
    /\ ~IsControlLine(m) /\ ~IsQuestionLine(m) /\ ~IsResponseLine(m)
    /\ ~IsStepLine(m)

\* The messages the step under way has appended to the display list.
Added == SubSeq(messages', Len(messages) + 1, Len(messages'))

\* The messages a pass over ls appends while it handles entry n.
EntryAdded(ls, n) ==
    LET before == ProcessLogs(SubSeq(ls, 1, n - 1))
        upto == ProcessLogs(SubSeq(ls, 1, n))
    IN SubSeq(upto, Len(before) + 1, Len(upto))

\* The position of the last step marker before entry n, 0 if there is none.
PrevStepPos(ls, n) ==
    LET S == {k \in 1..(n - 1) : IsStepLine(ls[k])}
    IN IF S = {} THEN 0 ELSE CHOOSE k \in S : \A j \in S : j <= k

\* The entries strictly between positions a and b that are of no special kind.
OtherBetween(ls, a, b) == SelectSeq(SubSeq(ls, a + 1, b - 1), IsOtherLine)

\* C11: in a pass, an entry that begins with 'Executing step' produces one
\* message flagged as step header, with the entry as content; what the pass
\* appends before it for that entry is the bucket of the preceding step,
\* which holds the plain entries after that step's marker and neither marker
\* (none at all at the first marker): every marker opens an empty bucket and
\* joins none.
C11_StepHeader ==
    [][\A f \in BagToSet(logFetches) :
          (LogOk(f) /\ Len(f.logs) > 0) =>
            /\ Added = ProcessLogs(logs')
            /\ \A n \in 1..Len(logs') :
                 IsStepLine(logs'[n]) =>
                   LET out == EntryAdded(logs', n)
                       prev == PrevStepPos(logs', n)
                       bucket == IF prev = 0 THEN <<>>
                                 ELSE OtherBetween(logs', prev, n)
                   IN /\ Len(out) = Len(bucket) + 1
                      /\ out[Len(out)].isStepMessage
                      /\ out[Len(out)].content = logs'[n]
                      /\ out[Len(out)].sender = "bot"
                      /\ ~out[Len(out)].isQuestion
                      /\ ~out[Len(out)].isResponse
                      /\ \A k \in 1..Len(bucket) :
                           /\ ~out[k].isStepMessage
                           /\ out[k].content = bucket[k]]_vars

\* A pass has handled a step marker, a plain entry under it and the next
\* step marker.
C11_Witness ==
    /\ ev = "LogOk"
    /\ \E n \in 1..Len(logs) :
         /\ IsStepLine(logs[n])
         /\ PrevStepPos(logs, n) > 0
         /\ Len(OtherBetween(logs, PrevStepPos(logs, n), n)) > 0
    /\ Cardinality({k \in 1..Len(logMsgs) : logMsgs[k].isStepMessage}) >= 2

\* The entries of ls that are no control lines.
WithoutControl(ls) == SelectSeq(ls, LAMBDA m : ~IsControlLine(m))

\* C12: in a pass, an entry that begins with one of the three control
\* prefixes produces no message, and the pass appends what it would append
\* for the log sequence without the control entries: they change neither
\* the open step nor its bucket.
C12_ControlDropped ==
    [][\A f \in BagToSet(logFetches) :
          (LogOk(f) /\ Len(f.logs) > 0) =>
            /\ \A n \in 1..Len(logs') :
                 IsControlLine(logs'[n]) => EntryAdded(logs', n) = <<>>
            /\ Added = ProcessLogs(WithoutControl(logs'))
            /\ \A k \in 1..Len(Added) : ~IsControlLine(Added[k].content)]_vars

\* A pass has met a control line inside an open step whose bucket was not
\* empty, and the step was closed by a later marker.
C12_Witness ==
    /\ ev = "LogOk"
    /\ \E n \in 1..Len(logs) :
         /\ IsControlLine(logs[n])
         /\ PrevStepPos(logs, n) > 0
         /\ Len(OtherBetween(logs, PrevStepPos(logs, n), n)) > 0
         /\ \E k \in (n + 1)..Len(logs) : IsStepLine(logs[k])
    /\ Len(logMsgs) = Len(logs)

\* s without its prefix tag, if it has it.
StripPrefix(s, tag) ==
    IF StartsWith(s, tag) THEN SubSeq(s, Len(tag) + 1, Len(s)) ELSE s

\* The last question of ls, NoText if it has none.
LastQuestion(ls) ==
    LET Q == {k \in 1..Len(ls) : IsQuestionLine(ls[k])}
    IN IF Q = {} THEN NoText
       ELSE StripPrefix(ls[CHOOSE k \in Q : \A j \in Q : j <= k], AskTag)

\* C13: in a pass, an entry that begins with '[ASK_HUMAN]' produces one bot
\* message flagged as question whose content is the entry without the
\* '[ASK_HUMAN] ' prefix, and that text is the pending question once the
\* pass is over if no later question follows; an entry that begins with
\* '[USER_RESPONSE]' produces one user message flagged as response, without
\* its prefix; neither is a step header, and the other messages of the pass
\* are those of the log sequence without questions and answers, so neither
\* joins a bucket.
C13_QuestionAndResponse ==
    [][\A f \in BagToSet(logFetches) :
          (LogOk(f) /\ Len(f.logs) > 0) =>
            /\ \A n \in 1..Len(logs') :
                 /\ IsQuestionLine(logs'[n]) =>
                      EntryAdded(logs', n) =
                        <<Msg(StripPrefix(logs'[n], AskTag), "bot",
                              FALSE, TRUE, FALSE, NoText)>>
                 /\ IsResponseLine(logs'[n]) =>
                      EntryAdded(logs', n) =
                        <<Msg(StripPrefix(logs'[n], RespTag), "user",
                              FALSE, FALSE, TRUE, NoText)>>
            /\ (\E n \in 1..Len(logs') : IsQuestionLine(logs'[n])) =>
                 currentHumanQuestion' = LastQuestion(logs')
            /\ SelectSeq(Added, LAMBDA d : ~d.isQuestion /\ ~d.isResponse) =
                 ProcessLogs(SelectSeq(logs',
                     LAMBDA m : ~IsQuestionLine(m) /\ ~IsResponseLine(m)))]_vars

\* A pass has handled, inside an open step, a question that quotes the tag
\* and, after it, an answer.
C13_Witness ==
    /\ ev = "LogOk"
    /\ \E n \in 1..Len(logs) :
         /\ logs[n] = AskAskLine
         /\ PrevStepPos(logs, n) > 0
         /\ \E k \in (n + 1)..Len(logs) : IsResponseLine(logs[k])
    /\ currentHumanQuestion = AskTag \o <<"q">>
    /\ \E k \in 1..Len(messages) : messages[k].isResponse

\* The positions of the entries of ls that are of no special kind, in order.
OtherPositions(ls) ==
    SelectSeq([k \in 1..Len(ls) |-> k], LAMBDA k : IsOtherLine(ls[k]))

\* The step open when the pass reaches entry n: the text of the last marker
\* before it, NoText if there is none.
OpenStepAt(ls, n) ==
    IF PrevStepPos(ls, n) = 0 THEN NoText ELSE ls[PrevStepPos(ls, n)]

\* C14: in a pass, every entry that is neither dropped nor a step marker, a
\* question or an answer is appended as one plain bot message at its
\* position in log order, under the open step if there is one: the plain
\* messages of the pass are those entries, one message each, in log order.
C14_PlainOnce ==
    [][\A f \in BagToSet(logFetches) :
          (LogOk(f) /\ Len(f.logs) > 0) =>
            LET P == OtherPositions(logs')
            IN SelectSeq(Added, LAMBDA d : ~d.isStepMessage /\ ~d.isQuestion
                                            /\ ~d.isResponse) =
                 [i \in 1..Len(P) |->
                    Msg(logs'[P[i]], "bot", FALSE, FALSE, FALSE,
                        OpenStepAt(logs', P[i]))]]_vars

\* ------------------------------------------------------------ display list claims
\* C15: the display list is append-only: whatever happens (a log batch, a
\* status transition, send, respond, a failure of any of them), the messages
\* shown before are still there afterwards, in the same order and at the
\* head of the list.
C15_AppendOnly ==
    [][/\ Len(messages') >= Len(messages)
       /\ SubSeq(messages', 1, Len(messages)) = messages]_vars

\* The status fetch a step issues, if it issues one.
IssuedStatusFetches == {f \in BagToSet(statusFetches') :
    CopiesIn(f, statusFetches') > CopiesIn(f, statusFetches)}

\* ------------------------------------------------------------ send / respond claims
\* C16: sending a message appends the user's message and then the thinking
\* placeholder, clears the input, sets the busy flag, resets logs and
\* cursor and posts the text to /send, the task id not yet stored; a
\* successful answer stores the returned task id and both pollers run for
\* it from then on; and while the POST is outstanding no log fetch and no
\* status fetch is issued.
C16_SendOrder ==
    /\ [][Send =>
            /\ messages' = messages \o <<UserMsg(inputValue), ThinkingMsg>>
            /\ inputValue' = NoText
            /\ isLoading'
            /\ logs' = <<>>
            /\ lastIndex' = 0
            /\ sendPosts' = sendPosts (+) SetToBag({
                   [message |-> inputValue, reply |-> "pending",
                    task_id |-> NoTask]})
            /\ currentTaskId' = currentTaskId]_vars
    /\ [][\A p \in BagToSet(sendPosts) :
            (SendOk(p) /\ p.reply = "ok") =>
              /\ currentTaskId' = p.task_id
              /\ logTimer'.on /\ logTimer'.taskId = p.task_id
              /\ statusTimer'.on /\ statusTimer'.taskId = p.task_id]_vars
    /\ [][sendPosts # EmptyBag =>
            (IssuedLogFetches = {} /\ IssuedStatusFetches = {})]_vars

\* The step header the fold makes of the entry m when no step is open.
FirstHeader(m) == Msg(m, "bot", TRUE, FALSE, FALSE, NoText)

\* C17: a send leaves the thinking placeholder as the last message; when
\* the task id has been stored and the first log response of the task
\* (offset 0) carries the single entry 'Executing step 1' with next_index 1
\* while the placeholder is still the last message, the display list gains
\* exactly one message, the step header 'Executing step 1', right behind the
\* placeholder, which stays.
C17_Scenario ==
    /\ [][Send => messages'[Len(messages')] = ThinkingMsg]_vars
    /\ [][\A f \in BagToSet(logFetches) :
            (/\ LogOk(f)
             /\ f.taskId = currentTaskId
             /\ f.last_index = 0
             /\ f.logs = <<StepLine>>
             /\ f.next_index = 1
             /\ logs = <<>>
             /\ messages[Len(messages)] = ThinkingMsg) =>
              /\ messages' = Append(messages, FirstHeader(StepLine))
              /\ logs' = <<StepLine>>
              /\ lastIndex' = 1]_vars

\* The scenario has run from a fresh start: greeting, the user's message,
\* the placeholder, the step header.
C17_Witness ==
    /\ ev = "LogOk"
    /\ currentTaskId = 1
    /\ lastIndex = 1
    /\ logs = <<StepLine>>
    /\ messages = <<GreetingMsg, UserMsg(<<"hi">>), ThinkingMsg,
                    FirstHeader(StepLine)>>

\* C18: answering a question posts the answer with the current task id to
\* /human_response and appends nothing; the successful answer of the POST
\* leaves the display list as it is; and a message flagged as response, or
\* a user message, enters the display list only with a log batch that holds
\* a '[USER_RESPONSE]' entry, or with a send.
C18_RespondNotEchoed ==
    /\ [][Respond =>
            /\ messages' = messages
            /\ respondPosts' = respondPosts (+) SetToBag({
                   [task_id |-> currentTaskId, response |-> inputValue,
                    handled |-> FALSE]})]_vars
    /\ [][\A p \in BagToSet(respondPosts) :
            RespondOk(p) => messages' = messages]_vars
    /\ [][(\E k \in 1..Len(Added) :
              Added[k].isResponse \/ Added[k].sender = "user") =>
            \/ ev' = "Send"
            \/ /\ ev' = "LogOk"
               /\ \E n \in 1..Len(logs') : IsResponseLine(logs'[n])]_vars

\* The answer 'hi' was posted, the POST succeeded, and a later log batch
\* brought the answer into the display list.
C18_Witness ==
    /\ ev = "LogOk"
    /\ respondPosts = EmptyBag
    /\ \E n \in 1..Len(logs) : logs[n] = RespTag \o <<"hi">>
    /\ \E k \in 1..Len(messages) :
         /\ messages[k].isResponse
         /\ messages[k].sender = "user"
         /\ messages[k].content = <<"hi">>

\* How many messages of ms have the content c.
CountContent(ms, c) == Cardinality({k \in 1..Len(ms) : ms[k].content = c})

\* C19: when POST /send fails, one 'request failed' bot message is shown,
\* as the last message, and the busy flag is off; when POST /human_response
\* fails, one error bot message is appended and nothing else changes; a log
\* fetch or a status fetch that fails changes nothing the UI holds.
C19_VisibleFailures ==
    /\ [][\A p \in BagToSet(sendPosts) :
            SendFail(p) =>
              /\ CountContent(messages', SendFailedText) = 1
              /\ messages'[Len(messages')] = PlainBot(SendFailedText)
              /\ ~isLoading']_vars
    /\ [][\A p \in BagToSet(respondPosts) :
            RespondFail(p) =>
              /\ messages' = Append(messages, PlainBot(RespondFailedText))
              /\ UNCHANGED <<currentTaskId, isLoading, lastIndex, logs,
                             inputValue, isAwaitingHuman,
                             currentHumanQuestion>>]_vars
    /\ [][(\E f \in BagToSet(logFetches) : LogFail(f)) => UNCHANGED uiVars]_vars
    /\ [][(\E f \in BagToSet(statusFetches) : StatusFail(f)) =>
            UNCHANGED uiVars]_vars

\* POST /send has failed for the second time in a row: one error message is
\* shown behind the user's two messages.
C19_Witness ==
    /\ ev = "SendFail"
    /\ nSubmits = 2
    /\ ~isLoading
    /\ messages = <<UserMsg(<<"hi">>), UserMsg(<<"hi">>),
                    PlainBot(SendFailedText)>>

\* ------------------------------------------------------------ cancellation claim
\* C20: the response of a fetch whose poller has been stopped since the
\* fetch was issued is dropped: a log response that arrives while the log
\* timer is off or runs for another task, and a status response that
\* arrives while the status timer is off or runs for another task, change
\* nothing the UI holds.
C20_StaleResponseDropped ==
    /\ [][\A f \in BagToSet(logFetches) :
            (LogOk(f) /\ (~logTimer.on \/ logTimer.taskId # f.taskId)) =>
              UNCHANGED uiVars]_vars
    /\ [][\A f \in BagToSet(statusFetches) :
            (/\ StatusAwaiting(f) \/ StatusCompleted(f) \/ StatusError(f)
             /\ ~statusTimer.on \/ statusTimer.taskId # f.taskId) =>
              UNCHANGED uiVars]_vars

\* ------------------------------------------------------------ cursor claims
\* C21: between two resets (a send, a successful answer) the cursor never
\* decreases, in whatever order the log responses arrive.
C21_CursorMonotone ==
    [][ev' \notin {"Send", "RespondOk"} => lastIndex' >= lastIndex]_vars

\* s is a prefix of t.
IsPrefix(s, t) == Len(s) <= Len(t) /\ SubSeq(t, 1, Len(s)) = s

\* C24: the log timer, while it runs, issues a fetch at a tick without
\* waiting for the response of an earlier fetch; and while a task is active
\* the accumulated log sequence is a prefix of the backend's log of that
\* task: nothing twice, nothing skipped, nothing out of order.
C24_LogsArePrefix ==
    currentTaskId # NoTask => IsPrefix(logs, bLogs[currentTaskId])

\* ------------------------------------------------------------ chat and status poller
\* Submits of the user in one behaviour of SendSpec and LiveSpec: an answer
\* and two sends, or three sends.
MaxSends == 3

\* The steps of the chat, the status poller and the backend, without the log
\* poller: its steps change nothing the status poller or handleSendMessage
\* read.
SendNext ==
    \/ \E v \in InputTexts : TypeInput(v)
    \/ SendWithin(MaxSends)
    \/ RespondWithin(MaxSends)
    \/ \E p \in BagToSet(sendPosts) : SendOk(p)
    \/ \E p \in BagToSet(sendPosts) : SendFail(p)
    \/ \E p \in BagToSet(sendPosts), ok \in BOOLEAN : BackendSend(p, ok)
    \/ \E p \in BagToSet(respondPosts) : RespondOk(p)
    \/ \E p \in BagToSet(respondPosts) : RespondFail(p)
    \/ \E p \in BagToSet(respondPosts) : BackendHumanResponse(p)
    \/ StatusTick
    \/ \E f \in BagToSet(statusFetches) : StatusAwaiting(f)
    \/ \E f \in BagToSet(statusFetches) : StatusCompleted(f)
    \/ \E f \in BagToSet(statusFetches) : StatusError(f)
    \/ \E f \in BagToSet(statusFetches) : StatusOther(f)
    \/ \E f \in BagToSet(statusFetches) : StatusFail(f)
    \/ \E t \in Tasks : BackendAsk(t)
    \/ \E t \in Tasks, r \in Responses : BackendFinish(t, "completed", r)
    \/ \E t \in Tasks : BackendFinish(t, "error", NoText)

SendSpec == Init /\ [][SendNext]_vars

\* ------------------------------------------------------------ liveness
\* A response that is in flight arrives: the network delivers.
Deliver ==
    \/ \E p \in BagToSet(sendPosts) : SendOk(p)
    \/ \E p \in BagToSet(sendPosts), ok \in BOOLEAN : BackendSend(p, ok)
    \/ \E p \in BagToSet(respondPosts) : RespondOk(p)
    \/ \E p \in BagToSet(respondPosts) : BackendHumanResponse(p)
    \/ \E f \in BagToSet(statusFetches) : StatusOther(f)
    \/ \E f \in BagToSet(statusFetches) : StatusAwaiting(f)

\* The status interval keeps firing while it is set, whatever else is in
\* flight; what is in flight arrives; and of the status fetches that observe
\* a terminal status, some succeed.
LiveSpec ==
    /\ Init
    /\ [][SendNext]_vars
    /\ SF_vars(StatusTick)
    /\ WF_vars(Deliver)
    /\ SF_vars(\E f \in BagToSet(statusFetches) : StatusCompleted(f))
    /\ SF_vars(\E f \in BagToSet(statusFetches) : StatusError(f))

\* No task, not busy, not awaiting, no status polling.
Idle ==
    /\ currentTaskId = NoTask
    /\ ~isLoading
    /\ ~isAwaitingHuman
    /\ ~statusTimer.on

\* C22: from every state in which a task is active and the backend reports
\* it completed or failed, if status fetches keep succeeding the UI reaches
\* the idle state: task id cleared, busy and awaiting flag off, status timer
\* off.
C22_ReachesIdle ==
    \A t \in Tasks :
        (currentTaskId = t /\ bStatus[t].status \in {"completed", "error"})
            ~> Idle

\* ------------------------------------------------------------ usePolling claim
\* C23: a run of usePolling's effect that has been cleaned up issues no
\* further fetch and schedules no further timeout, even if one of its
\* fetches was in flight at the clean-up; and a run that belongs to a render
\* with polling enabled schedules the next fetch after every fetch that
\* settles, whether it succeeded or failed.
C23_PollingCleansUp ==
    /\ [](\A i \in 1..Len(chains) : ~chains[i].late)
    /\ [][\A i \in 1..Len(chains), ok \in BOOLEAN :
            (FetchDone(i, ok) /\ chains[i].isPolling /\ ~chains[i].cleaned) =>
              chains'[i].phase = "timer"]_vars

\* ------------------------------------------------------------ busy flag
\* C25: in every reachable state where the busy flag is set and the UI is
\* not awaiting input, a POST to /send is in flight or a task id is set, so
\* that a status poll can still clear the flag.
C25_BusyHasOwner ==
    (isLoading /\ ~isAwaitingHuman) =>
        (sendPosts # EmptyBag \/ currentTaskId # NoTask)

\* ------------------------------------------------------------ answering
\* C27: answering a pending question leaves the cursor and the accumulated
\* log sequence of the current task unchanged.
C27_AnswerKeepsLogs ==
    [][ev' = "RespondOk" => (lastIndex' = lastIndex /\ logs' = logs)]_vars

\* ------------------------------------------------------------ awaiting flag
\* The awaiting-input flag is false whenever no task is active.
AwaitingNeedsTask == currentTaskId = NoTask => ~isAwaitingHuman

\* A status response turns the awaiting-input flag on only for the active
\* task and only while the backend status of that task is awaiting_human.
\* The backend leaves awaiting_human only by handling the user's answer, so
\* a response that turns the flag on after that was issued before the answer.
AwaitingNotSetAgain ==
    \A f \in BagToSet(statusFetches) :
        (StatusAwaiting(f) /\ ~isAwaitingHuman) =>
            /\ currentTaskId = f.taskId
            /\ bStatus[f.taskId].status = "awaiting_human"

\* C28: the awaiting-input flag is set only while a task id is active and
\* the backend status of that task is awaiting_human: it is false with no
\* active task, and a status response issued before the user's answer does
\* not set it again once the task runs on.
C28_AwaitingOnlyWhileAsked ==
    [](AwaitingNeedsTask) /\ [][AwaitingNotSetAgain]_vars

\* ------------------------------------------------------------ one task
\* The send action takes its send branch: POST /send is issued.
IssuesSend == ev' = "Send" /\ sendPosts' # sendPosts

\* C29: at most one task is in progress at a time: POST /send is issued
\* only when the trimmed input is non-empty, no earlier send POST is in
\* flight and no task id is active.
C29_OneTaskAtATime ==
    [][IssuesSend =>
          /\ Trim(inputValue) # NoText
          /\ sendPosts = EmptyBag
          /\ currentTaskId = NoTask]_vars

\* ------------------------------------------------------------ the question
\* Sends of the user in one behaviour of AskSpec.
MaxAskSends == 1

\* One task from its start to its question: the chat, both pollers and the
\* backend; the user does not answer.
AskNext ==
    \/ \E v \in InputTexts : TypeInput(v)
    \/ SendWithin(MaxAskSends)
    \/ \E p \in BagToSet(sendPosts) : SendOk(p)
    \/ \E p \in BagToSet(sendPosts) : SendFail(p)
    \/ \E p \in BagToSet(sendPosts), ok \in BOOLEAN : BackendSend(p, ok)
    \/ LogTick
    \/ \E f \in BagToSet(logFetches) : LogOk(f)
    \/ \E f \in BagToSet(logFetches) : LogFail(f)
    \/ StatusTick
    \/ \E f \in BagToSet(statusFetches) : StatusAwaiting(f)
    \/ \E f \in BagToSet(statusFetches) : StatusCompleted(f)
    \/ \E f \in BagToSet(statusFetches) : StatusError(f)
    \/ \E f \in BagToSet(statusFetches) : StatusOther(f)
    \/ \E f \in BagToSet(statusFetches) : StatusFail(f)
    \/ \E t \in Tasks, e \in LogPool : BackendLog(t, e)
    \/ \E t \in Tasks : BackendAsk(t)
    \/ \E t \in Tasks, r \in Responses : BackendFinish(t, "completed", r)
    \/ \E t \in Tasks : BackendFinish(t, "error", NoText)

\* Both intervals keep firing while they are set, and of the fetches in
\* flight some succeed.
AskSpec ==
    /\ Init
    /\ [][AskNext]_vars
    /\ SF_vars(LogTick)
    /\ SF_vars(StatusTick)
    /\ SF_vars(\E f \in BagToSet(logFetches) : LogOk(f))
    /\ SF_vars(\E f \in BagToSet(statusFetches) : StatusAwaiting(f))

\* The display list holds a question.
QuestionShown == \E i \in 1..Len(messages) : messages[i].isQuestion

\* C26: whenever the UI is awaiting input for a task whose backend log holds
\* an '[ASK_HUMAN]' entry, the question is eventually in the display list as
\* an is_question message, before the user answers.
C26_QuestionEventuallyShown ==
    \A t \in Tasks :
        (isAwaitingHuman /\ currentTaskId = t /\ HasAsked(bLogs[t]))
            ~> QuestionShown

\* ------------------------------------------------------------ preview URL
\* Entries the agents log about their browser sessions in one behaviour.
MaxBrowserLen == 2

\* A session line with a URL, one with the marker inside the line and
\* another URL, one whose URL has no marker, and DebugLine, which has the
\* marker and no URL.
UrlLineA == DebugUrlPrefix \o <<SP, "http://a">>
UrlLineB == <<"x", SP>> \o DebugUrlPrefix \o <<SP, "https://b">>
TokenUrlLine == <<"Token usage:", SP, "http://a">>
BrowserPool == {UrlLineA, UrlLineB, TokenUrlLine, DebugLine}

\* The agent logs a line about its browser session.
BackendDebug(t, e) ==
    /\ bStatus[t].status = "running"
    /\ Cardinality({x \in Tasks \X (1..MaxBrowserLen) :
                        /\ x[2] <= Len(bLogs[x[1]])
                        /\ bLogs[x[1]][x[2]] \in BrowserPool}) < MaxBrowserLen
    /\ bLogs' = [bLogs EXCEPT ![t] = Append(@, e)]
    /\ ev' = "-"
    /\ UNCHANGED <<auxVars, uiVars, timerVars, netVars, bStatus, nTasks, pollHist,
                   finals, firstIdx, nSubmits>>

\* Tasks that log their browser session, polled until they complete.
BrowserNext ==
    \/ \E v \in InputTexts : TypeInput(v)
    \/ Send
    \/ \E p \in BagToSet(sendPosts) : SendOk(p)
    \/ \E p \in BagToSet(sendPosts), ok \in BOOLEAN : BackendSend(p, ok)
    \/ LogTick
    \/ \E f \in BagToSet(logFetches) : LogOk(f)
    \/ StatusTick
    \/ \E f \in BagToSet(statusFetches) : StatusCompleted(f)
    \/ \E f \in BagToSet(statusFetches) : StatusOther(f)
    \/ \E t \in Tasks, e \in BrowserPool : BackendDebug(t, e)
    \/ \E t \in Tasks : BackendFinish(t, "completed", NoText)

BrowserSpec == Init /\ [][BrowserNext]_vars

\* The positions of the entries that contain 'Session debug_url:'.
MarkerPositions(ls) == {i \in 1..Len(ls) : Includes(ls[i], DebugUrlPrefix)}

\* The most recent entry that contains 'Session debug_url:'.
LastMarkerEntry(ls) ==
    ls[CHOOSE i \in MarkerPositions(ls) : \A j \in MarkerPositions(ls) : j <= i]

\* C30: the preview URL is the http(s) URL of the most recent log entry that
\* contains 'Session debug_url:'; it changes only to a URL found in the logs
\* and different from the current one; with no such entry in the logs the
\* URL shown before is kept, and it never reverts to empty.
C30_BrowserUrl ==
    /\ []((MarkerPositions(logs) # {}
              /\ UrlMatch(LastMarkerEntry(logs)) # NoText) =>
            url = UrlMatch(LastMarkerEntry(logs)))
    /\ [][/\ url' # url =>
               (url' # NoText /\ url' = extractUrlFromLogs(logs'))
          /\ MarkerPositions(logs') = {} => url' = url
          /\ url # NoText => url' # NoText]_vars

\* A second task has just started: the logs were reset and hold no session
\* entry, and the URL of the first task's session is still shown.
C30_Witness ==
    /\ ev = "Send"
    /\ logs = <<>>
    /\ url = <<"https://b">>
    /\ \E n \in 1..Len(bLogs[1]) : bLogs[1][n] = UrlLineA
=============================================================================
